---- MODULE Spec2Model ----
\* Candidate assembly and merging of the trait solver
\* (compiler/rustc_trait_selection/src/solve/assembly.rs).
\*
\* A goal is (self type, trait, param_env).  A self type is written as the
\* chain of type kinds obtained by normalizing it step by step: every
\* element but the last is a projection that normalizes to the rest of the
\* chain; the last element is the kind at which normalization stops (a
\* projection there is one whose normalization fails).
\*
\* The per-candidate checks (the consider_... methods of GoalKind) are trait
\* methods that are only declared in this file.  Their results are an input:
\* the table `oracle`, fixed for a run, read by `Consider`.
EXTENDS Naturals, Sequences, FiniteSets

VARIABLES
    pc,          \* "start" | "assembled" | "fatal" | "merged"
    goal,        \* the goal under evaluation
    width,       \* how many impls / bounds / super-relations the crate declares
    oracle,      \* results of the consider_* checks
    candidates,  \* Vec<Candidate> returned by assembly and given to merge
    calls,       \* the sources assembly invoked, in order
    ecx,         \* the evaluation context after assembly
    outcome      \* what merge returned

vars == <<pc, goal, width, oracle, candidates, calls, ecx, outcome>>

----------------------------------------------------------------------------
\* Bounds

\* most projections to normalize through before the self type is structural
MaxNorm == 2
\* most impls, caller bounds, item bounds, object bounds, super-relations
MaxWidth == 2
\* longest candidate list given to merge directly
MaxCands == 3

----------------------------------------------------------------------------
\* Types

\* kinds for which the alias-bound scan returns at once (lines 380-404)
StructuralKinds ==
    {"Bool", "Char", "Int", "Uint", "Float", "Adt", "Foreign", "Str", "Array",
     "Slice", "RawPtr", "Ref", "FnDef", "FnPtr", "Closure", "Generator",
     "GeneratorWitness", "GeneratorWitnessMIR", "Never", "Tuple", "Param",
     "Placeholder", "IntVar", "FloatVar", "Error"}

\* ty::Infer(TyVar | FreshTy | FreshIntTy | FreshFloatTy) and ty::Bound
UnexpectedKinds == {"TyVar", "FreshTy", "FreshIntTy", "FreshFloatTy", "Bound"}

\* ty::Alias(kind, _)
AliasKinds == {"Projection", "Opaque"}

Kinds == StructuralKinds \cup {"Dynamic"} \cup UnexpectedKinds \cup AliasKinds

\* self types: n projections, then the kind normalization ends in
SelfTys ==
    { [i \in 1..(n + 1) |-> IF i <= n THEN "Projection" ELSE k] :
        n \in 0..MaxNorm, k \in Kinds }

kind(ty) == ty[1]

\* variant: the short-circuit test never fires
is_ty_var_unguarded(ty) == FALSE

is_ty_var(ty) == kind(ty) = "TyVar"

\* the normalizes-to goal of the pre-pass succeeds iff the projection has a
\* normal form; the term it is resolved to is the rest of the chain
normalizes(ty) == kind(ty) = "Projection" /\ Len(ty) > 1

normalized_ty(ty) == Tail(ty)

----------------------------------------------------------------------------
\* Traits

LangItems ==
    {"none", "sized", "copy", "clone", "pointer_like", "fn", "fn_mut",
     "fn_once", "tuple", "pointee", "future", "gen", "unsize",
     "discriminant_kind"}

\* a trait definition: what trait_is_auto, trait_is_alias and lang_items()
\* say about its DefId
TraitDefs ==
    { [auto |-> FALSE, alias |-> FALSE, item |-> l] : l \in LangItems }
    \cup
    { [auto |-> a, alias |-> b, item |-> l] :
        a \in BOOLEAN, b \in BOOLEAN, l \in {"none", "sized", "unsize"} }

Ordinary == [auto |-> FALSE, alias |-> FALSE, item |-> "none"]

Unsize == [auto |-> FALSE, alias |-> FALSE, item |-> "unsize"]

\* the goals assembly is run on: every self type with an ordinary trait and
\* with the unsizing trait, and every trait with a struct, an object type and
\* an opaque type (each also behind projections)
GoalShapes ==
    { [self_ty |-> t, trait |-> tr] : t \in SelfTys, tr \in {Ordinary, Unsize} }
    \cup
    { [self_ty |-> t, trait |-> tr] :
        t \in { u \in SelfTys : u[Len(u)] \in {"Adt", "Dynamic", "Opaque"} },
        tr \in TraitDefs }

with_self_ty(g, ty) == [g EXCEPT !.self_ty = ty]

----------------------------------------------------------------------------
\* Responses and candidates

Certainties == {"Yes", "MaybeAmbiguity", "MaybeOverflow"}

AMBIGUOUS == "MaybeAmbiguity"

Constraints == SUBSET {"c1"}

Responses == [certainty : Certainties, constraints : Constraints]

NoResponse == [certainty |-> "none", constraints |-> {}]

\* QueryResult = Result<CanonicalResponse, NoSolution>
Ok(r) == [ok |-> TRUE, response |-> r]

ErrNoSolution == [ok |-> FALSE, response |-> NoResponse]

\* CandidateSource: Impl(DefId) | BuiltinImpl | ParamEnv(usize) | AliasBound
Impl(def_id) == [kind |-> "Impl", id |-> def_id]

BuiltinImpl == [kind |-> "BuiltinImpl", id |-> 0]

ParamEnv(i) == [kind |-> "ParamEnv", id |-> i]

AliasBound == [kind |-> "AliasBound", id |-> 0]

Candidate(s, r) == [source |-> s, result |-> r]

\* the impls the crate declares: even DefIds are reservation impls
impl_polarity(def_id) ==
    IF def_id % 2 = 0 THEN "Reservation" ELSE "Positive"

----------------------------------------------------------------------------
\* Merging (merge_candidates_and_discard_reservation_impls)

\* EvalCtxt::evaluate_added_goals_and_make_canonical_response, called with no
\* goals added: a response of the given certainty with no constraints
evaluate_added_goals_and_make_canonical_response(certainty) ==
    Ok([certainty |-> certainty, constraints |-> {}])

\* variant: no downgrade at all
discard_reservation_impl_keep(candidate) == candidate

\* variant: the polarity test is missing, every impl is downgraded
discard_reservation_impl_any_impl(candidate) ==
    IF candidate.source.kind = "Impl"
    THEN [candidate EXCEPT !.result = [certainty |-> AMBIGUOUS, constraints |-> {}]]
    ELSE candidate

discard_reservation_impl(candidate) ==
    IF candidate.source.kind = "Impl"
       /\ impl_polarity(candidate.source.id) = "Reservation"
    THEN [candidate EXCEPT !.result =
            evaluate_added_goals_and_make_canonical_response(AMBIGUOUS).response]
    ELSE candidate

\* every arm of the match is `false`
trait_candidate_should_be_dropped_in_favor_of(candidate, other) ==
    CASE candidate.source.kind = "Impl" -> FALSE
      [] candidate.source.kind = "ParamEnv" -> FALSE
      [] candidate.source.kind = "AliasBound" -> FALSE
      [] candidate.source.kind = "BuiltinImpl" -> FALSE

\* Vec::swap_remove(i), positions counted from 1: the last element takes the
\* place of the removed one
swap_remove(v, i) ==
    [k \in 1..(Len(v) - 1) |-> IF k = i THEN v[Len(v)] ELSE v[k]]

\* the 'outer loop (lines 483-498), from position i on
RECURSIVE prune_from(_, _)
prune_from(cands, i) ==
    IF i > Len(cands) THEN cands
    ELSE IF \E j \in 1..Len(cands) :
               /\ i # j
               /\ trait_candidate_should_be_dropped_in_favor_of(cands[i], cands[j])
         THEN prune_from(swap_remove(cands, i), i)
         ELSE prune_from(cands, i + 1)

\* variant: the comparison is negated
all_equal_inverted(cands) ==
    \E a \in 1..Len(cands) : \E b \in 1..Len(cands) :
        cands[a].result # cands[b].result

\* Itertools::all_equal over the candidates' results
all_equal(cands) ==
    \A a \in 1..Len(cands) : \A b \in 1..Len(cands) :
        cands[a].result = cands[b].result

all_overflow(cands) ==
    \A a \in 1..Len(cands) : cands[a].result.certainty = "MaybeOverflow"

\* variant: Overflow is not told apart
merged_certainty_always_ambiguous(cands) == AMBIGUOUS

\* lines 503-509
merged_certainty(cands) ==
    IF all_overflow(cands) THEN "MaybeOverflow" ELSE AMBIGUOUS

NoCandidate == Candidate([kind |-> "none", id |-> 0], NoResponse)

\* what a call of merge did: its result, the exit it took, the list left after
\* pruning, the candidate popped (if any), and whether the pruning loop and
\* the comparison of responses were entered
MergeReturn(result, exit, remaining, popped, looped, compared) ==
    [result |-> result, exit |-> exit, remaining |-> remaining,
     popped |-> popped, looped |-> looped, compared |-> compared]

NoOutcome == MergeReturn(ErrNoSolution, "none", <<>>, NoCandidate, FALSE, FALSE)

\* the `match candidates.len()` of lines 476-480 returns at once for 0 and 1
merge_returns_early(cands) == Len(cands) <= 1

\* variant: the empty test is off by one
no_candidates_or_one(cands) == Len(cands) <= 1

\* the `0 =>` arm of line 477
no_candidates(cands) == Len(cands) = 0

merge_candidates_and_discard_reservation_impls(cands) ==
    IF no_candidates(cands)
    THEN MergeReturn(ErrNoSolution, "empty", cands, NoCandidate, FALSE, FALSE)
    ELSE IF merge_returns_early(cands)
    THEN MergeReturn(Ok(discard_reservation_impl(cands[Len(cands)]).result),
                     "sole", cands, cands[Len(cands)], FALSE, FALSE)
    ELSE
      LET remaining == IF Len(cands) > 1 THEN prune_from(cands, 1) ELSE cands
          compared == Len(cands) > 1 /\ Len(remaining) > 1
      IN  IF Len(cands) > 1 /\ Len(remaining) > 1 /\ ~all_equal(remaining)
          THEN MergeReturn(
                 evaluate_added_goals_and_make_canonical_response(
                     merged_certainty(remaining)),
                 "differ", remaining, NoCandidate, TRUE, TRUE)
          ELSE MergeReturn(
                 Ok(discard_reservation_impl(remaining[Len(remaining)]).result),
                 "same", remaining, remaining[Len(remaining)],
                 Len(cands) > 1, compared)

----------------------------------------------------------------------------
\* The consider_... checks

OracleKeys == 0..3

\* for each key, whether the checks filed under it answer Ok
Oracles == [OracleKeys -> BOOLEAN]

\* the sources, numbered in the order assembly runs them
SrcImpl == 1
SrcBuiltin == 2
SrcUpcast == 3
SrcParamEnv == 4
SrcAliasBound == 5
SrcObjectBound == 6

\* the response of a check that answers Ok
ResponseOf(src, idx) ==
    CASE (src + idx) % 3 = 0 -> [certainty |-> "Yes", constraints |-> {"c1"}]
      [] (src + idx) % 3 = 1 -> [certainty |-> "MaybeAmbiguity", constraints |-> {}]
      [] (src + idx) % 3 = 2 -> [certainty |-> "MaybeOverflow", constraints |-> {}]

\* the answer of the check a source makes for its idx-th item on goal g; it
\* depends on the source, the item and the goal's self type
Consider(src, idx, g) ==
    IF oracle[(2 * src + idx + Len(g.self_ty)) % 4]
    THEN Ok(ResponseOf(src, idx))
    ELSE ErrNoSolution

\* the origin a source tags the candidate of its i-th item with
SourceOf(src, i) ==
    CASE src = SrcImpl -> Impl(i)
      [] src = SrcParamEnv -> ParamEnv(i - 1)
      [] src = SrcAliasBound -> AliasBound
      [] src \in {SrcBuiltin, SrcUpcast, SrcObjectBound} -> BuiltinImpl

\* the candidates a source pushes for items 1..n: one per item whose check
\* answers Ok, in item order, the failures skipped
Pushed(n, src, g) ==
    LET all == [i \in 1..n |-> [source |-> SourceOf(src, i),
                                 q |-> Consider(src, i, g)]]
        kept == SelectSeq(all, LAMBDA x : x.q.ok)
    IN  [i \in 1..Len(kept) |-> Candidate(kept[i].source, kept[i].q.response)]

----------------------------------------------------------------------------
\* The evaluation context

\* inference variables created, variables bound, nested goals pending
NewEcx == [vars |-> 0, bound |-> 0, goals |-> 0]

next_ty_infer(e) == [e EXCEPT !.vars = @ + 1]

add_goal(e) == [e EXCEPT !.goals = @ + 1]

\* try_evaluate_added_goals after the normalizes-to goal was added: on success
\* the goal is discharged and, unless the term stays an inference variable,
\* the fresh variable is bound
try_evaluate_added_goals(e, ty) ==
    IF normalizes(ty)
    THEN [e EXCEPT !.goals = 0,
                   !.bound = IF is_ty_var(normalized_ty(ty)) THEN @ ELSE @ + 1]
    ELSE e

----------------------------------------------------------------------------
\* Assembly

\* the state a source works on: the candidates so far, the sources invoked so
\* far, the evaluation context, and whether bug!() has aborted the call
AsmState(cands, cs, e, fatal) ==
    [cands |-> cands, calls |-> cs, ecx |-> e, fatal |-> fatal]

\* one invocation of a source: at which recursion depth, on which self type
\* kind, which built-in check it chose, how many candidates it pushed, and
\* the context it saw on entry
Call(src, d, g, check, added, e) ==
    [source |-> src, depth |-> d, kind |-> kind(g.self_ty), check |-> check,
     added |-> added, ecx |-> e]

Return(st, src, d, g, check, new) ==
    AsmState(st.cands \o new,
             Append(st.calls, Call(src, d, g, check, Len(new), st.ecx)),
             st.ecx, FALSE)

Bug(st, src, d, g) ==
    AsmState(st.cands, Append(st.calls, Call(src, d, g, "bug", 0, st.ecx)),
             st.ecx, TRUE)

assemble_impl_candidates(g, d, st) ==
    IF st.fatal THEN st
    ELSE Return(st, "impl", d, g, "", Pushed(width, SrcImpl, g))

\* variant: the lang-item tests come before the auto and alias tests
builtin_check_lang_item_first(trait) ==
    IF trait.item = "sized" THEN "consider_builtin_sized_candidate"
    ELSE IF trait.item = "unsize" THEN "consider_builtin_unsize_candidate"
    ELSE IF trait.auto THEN "consider_auto_trait_candidate"
    ELSE IF trait.alias THEN "consider_trait_alias_candidate"
    ELSE "none"

\* the if / else-if chain of lines 313-341: the check it selects, or "none"
builtin_check(trait) ==
    IF trait.auto THEN "consider_auto_trait_candidate"
    ELSE IF trait.alias THEN "consider_trait_alias_candidate"
    ELSE IF trait.item = "sized" THEN "consider_builtin_sized_candidate"
    ELSE IF trait.item = "copy" \/ trait.item = "clone"
         THEN "consider_builtin_copy_clone_candidate"
    ELSE IF trait.item = "pointer_like"
         THEN "consider_builtin_pointer_like_candidate"
    ELSE IF trait.item \in {"fn", "fn_mut", "fn_once"}
         THEN "consider_builtin_fn_trait_candidates"
    ELSE IF trait.item = "tuple" THEN "consider_builtin_tuple_candidate"
    ELSE IF trait.item = "pointee" THEN "consider_builtin_pointee_candidate"
    ELSE IF trait.item = "future" THEN "consider_builtin_future_candidate"
    ELSE IF trait.item = "gen" THEN "consider_builtin_generator_candidate"
    ELSE IF trait.item = "unsize" THEN "consider_builtin_unsize_candidate"
    ELSE IF trait.item = "discriminant_kind"
         THEN "consider_builtin_discriminant_kind_candidate"
    ELSE "none"

\* the answer of the selected check.  Unsizing one object type to another is
\* not answered by consider_builtin_unsize_candidate but by the upcast
\* enumeration (comments at lines 193-202)
consider_builtin(check, g) ==
    IF check = "none" THEN ErrNoSolution
    ELSE IF check = "consider_builtin_unsize_candidate"
            /\ kind(g.self_ty) = "Dynamic"
    THEN ErrNoSolution
    ELSE Consider(SrcBuiltin, 0, g)

\* consider_builtin_dyn_upcast_candidates: one response per super-relation
\* of an object self type through which it converts to the target
consider_builtin_dyn_upcast_candidates(g) ==
    IF kind(g.self_ty) = "Dynamic"
    THEN LET c == Pushed(width, SrcUpcast, g)
         IN  [i \in 1..Len(c) |-> c[i].result]
    ELSE <<>>

\* variant: only the first upcast response is pushed
upcast_candidates_first_only(g) ==
    IF g.trait.item = "unsize"
    THEN LET r == consider_builtin_dyn_upcast_candidates(g)
         IN  IF Len(r) > 0 THEN <<Candidate(BuiltinImpl, r[1])>> ELSE <<>>
    ELSE <<>>

\* the loop of lines 352-356
upcast_candidates(g) ==
    IF g.trait.item = "unsize"
    THEN LET r == consider_builtin_dyn_upcast_candidates(g)
         IN  [i \in 1..Len(r) |-> Candidate(BuiltinImpl, r[i])]
    ELSE <<>>

assemble_builtin_impl_candidates(g, d, st) ==
    IF st.fatal THEN st
    ELSE LET check == builtin_check(g.trait)
             result == consider_builtin(check, g)
             first == IF result.ok
                      THEN <<Candidate(BuiltinImpl, result.response)>>
                      ELSE <<>>
         IN  Return(st, "builtin", d, g, check, first \o upcast_candidates(g))

assemble_param_env_candidates(g, d, st) ==
    IF st.fatal THEN st
    ELSE Return(st, "param_env", d, g, "",
                Pushed(Len(g.param_env), SrcParamEnv, g))

\* variant: the kinds of the bug!() arm fall through to the returning arm
alias_bound_dispatch_no_bug_arm(k) ==
    IF k \in StructuralKinds \cup {"Dynamic"} \cup UnexpectedKinds THEN "return"
    ELSE "scan"

\* variant: ty::Dynamic is missing from the returning arm
alias_bound_dispatch_no_object_arm(k) ==
    IF k \in StructuralKinds THEN "return"
    ELSE IF k \in UnexpectedKinds THEN "bug"
    ELSE "scan"

\* the match of lines 379-408 on the self type's kind
alias_bound_dispatch(k) ==
    IF k \in StructuralKinds \cup {"Dynamic"} THEN "return"
    ELSE IF k \in UnexpectedKinds THEN "bug"
    ELSE "scan"

assemble_alias_bound_candidates(g, d, st) ==
    IF st.fatal THEN st
    ELSE LET arm == alias_bound_dispatch(kind(g.self_ty))
         IN  IF arm = "return" THEN Return(st, "alias_bound", d, g, "", <<>>)
             ELSE IF arm = "bug" THEN Bug(st, "alias_bound", d, g)
             ELSE Return(st, "alias_bound", d, g, "",
                         Pushed(width, SrcAliasBound, g))

\* the match of lines 427-456 on the self type's kind
object_bound_dispatch(k) ==
    IF k \in StructuralKinds \cup AliasKinds THEN "return"
    ELSE IF k \in UnexpectedKinds THEN "bug"
    ELSE "scan"

assemble_object_bound_candidates(g, d, st) ==
    IF st.fatal THEN st
    ELSE LET arm == object_bound_dispatch(kind(g.self_ty))
         IN  IF arm = "return" THEN Return(st, "object_bound", d, g, "", <<>>)
             ELSE IF arm = "bug" THEN Bug(st, "object_bound", d, g)
             ELSE Return(st, "object_bound", d, g, "",
                         Pushed(width, SrcObjectBound, g))

RECURSIVE assemble_and_evaluate_candidates(_, _, _, _)

\* variant: the recursive call's candidates are dropped
fold_none(outer, inner) == outer

\* candidates.extend(...) of line 283
fold_candidates(outer, inner) == outer \o inner

\* EvalCtxt::probe: the context the caller continues with is the one it had
\* before the closure ran
probe(before, after) == before

\* variant: the closure of the pre-pass runs on the context itself, outside
\* a probe
assemble_candidates_after_normalizing_self_ty_no_probe(g, d, st) ==
    IF st.fatal THEN st
    ELSE IF kind(g.self_ty) # "Projection"
    THEN Return(st, "normalizing_self_ty", d, g, "", <<>>)
    ELSE
      LET e1 == add_goal(next_ty_infer(st.ecx))
          e2 == try_evaluate_added_goals(e1, g.self_ty)
          entered == Append(st.calls,
                            Call("normalizing_self_ty", d, g, "", 0, st.ecx))
      IN  IF normalizes(g.self_ty)
          THEN LET inner == assemble_and_evaluate_candidates(
                              with_self_ty(g, normalized_ty(g.self_ty)),
                              d + 1, entered, e2)
               IN  AsmState(fold_candidates(st.cands, inner.cands),
                            inner.calls, inner.ecx, inner.fatal)
          ELSE AsmState(st.cands, entered, e2, FALSE)

assemble_candidates_after_normalizing_self_ty(g, d, st) ==
    IF st.fatal THEN st
    ELSE IF kind(g.self_ty) # "Projection"
    THEN Return(st, "normalizing_self_ty", d, g, "", <<>>)
    ELSE
      \* self.probe(|ecx| ...): what the closure does to the context is
      \* rolled back when it returns
      LET e1 == add_goal(next_ty_infer(st.ecx))
          e2 == try_evaluate_added_goals(e1, g.self_ty)
          entered == Append(st.calls,
                            Call("normalizing_self_ty", d, g, "", 0, st.ecx))
      IN  IF normalizes(g.self_ty)
          THEN LET inner == assemble_and_evaluate_candidates(
                              with_self_ty(g, normalized_ty(g.self_ty)),
                              d + 1, entered, e2)
               IN  AsmState(fold_candidates(st.cands, inner.cands),
                            inner.calls, probe(st.ecx, inner.ecx), inner.fatal)
          ELSE AsmState(st.cands, entered, probe(st.ecx, e2), FALSE)

\* variant: the environment scan runs before the built-in dispatch
assemble_and_evaluate_candidates_env_first(g, d, cs, e) ==
    IF is_ty_var(g.self_ty)
    THEN AsmState(
           <<Candidate(BuiltinImpl,
                       evaluate_added_goals_and_make_canonical_response(
                           AMBIGUOUS).response)>>,
           cs, e, FALSE)
    ELSE LET s0 == AsmState(<<>>, cs, e, FALSE)
             s1 == assemble_candidates_after_normalizing_self_ty(g, d, s0)
             s2 == assemble_impl_candidates(g, d, s1)
             s3 == assemble_param_env_candidates(g, d, s2)
             s4 == assemble_builtin_impl_candidates(g, d, s3)
             s5 == assemble_alias_bound_candidates(g, d, s4)
             s6 == assemble_object_bound_candidates(g, d, s5)
         IN  s6

assemble_and_evaluate_candidates(g, d, cs, e) ==
    IF is_ty_var(g.self_ty)
    THEN AsmState(
           <<Candidate(BuiltinImpl,
               evaluate_added_goals_and_make_canonical_response(AMBIGUOUS).response)>>,
           cs, e, FALSE)
    ELSE
      LET s0 == AsmState(<<>>, cs, e, FALSE)
          s1 == assemble_candidates_after_normalizing_self_ty(g, d, s0)
          s2 == assemble_impl_candidates(g, d, s1)
          s3 == assemble_builtin_impl_candidates(g, d, s2)
          s4 == assemble_param_env_candidates(g, d, s3)
          s5 == assemble_alias_bound_candidates(g, d, s4)
          s6 == assemble_object_bound_candidates(g, d, s5)
      IN  s6

----------------------------------------------------------------------------
\* The state machine

TypeOK ==
    /\ pc \in {"start", "assembled", "fatal", "merged"}
    /\ width \in 0..MaxWidth
    /\ oracle \in Oracles

\* a goal arrives for assembly
Init ==
    /\ pc = "start"
    /\ width \in 0..MaxWidth
    /\ oracle \in Oracles
    /\ goal \in { [self_ty |-> s.self_ty, trait |-> s.trait,
                     param_env |-> [i \in 1..width |-> i]] : s \in GoalShapes }
    /\ candidates = <<>>
    /\ calls = <<>>
    /\ ecx = NewEcx
    /\ outcome = NoOutcome

\* assemble_and_evaluate_candidates(goal): returns the list, or aborts
Assemble ==
    /\ pc = "start"
    /\ LET r == assemble_and_evaluate_candidates(goal, 0, <<>>, ecx)
       IN  /\ pc' = IF r.fatal THEN "fatal" ELSE "assembled"
           /\ candidates' = IF r.fatal THEN <<>> ELSE r.cands
           /\ calls' = r.calls
           /\ ecx' = r.ecx
    /\ UNCHANGED <<goal, width, oracle, outcome>>

\* merge_candidates_and_discard_reservation_impls(candidates)
Merge ==
    /\ pc = "assembled"
    /\ outcome' = merge_candidates_and_discard_reservation_impls(candidates)
    /\ pc' = "merged"
    /\ UNCHANGED <<goal, width, oracle, candidates, calls, ecx>>

Next == Assemble \/ Merge

Spec == Init /\ [][Next]_vars

\* merge is given an arbitrary candidate list
MergeSources == {Impl(1), Impl(2), BuiltinImpl, ParamEnv(0), AliasBound}

MergeResponses ==
    {[certainty |-> "Yes", constraints |-> {"c1"}],
     [certainty |-> "MaybeAmbiguity", constraints |-> {}],
     [certainty |-> "MaybeOverflow", constraints |-> {}],
     [certainty |-> "MaybeOverflow", constraints |-> {"c1"}]}

MergeCandidates == [source : MergeSources, result : MergeResponses]

InitMerge ==
    /\ pc = "assembled"
    /\ width = 0
    /\ oracle = [k \in OracleKeys |-> FALSE]
    /\ goal = [self_ty |-> <<"Adt">>,
               trait |-> Ordinary,
               param_env |-> <<>>]
    /\ candidates \in UNION { [1..n -> MergeCandidates] : n \in 0..MaxCands }
    /\ calls = <<>>
    /\ ecx = NewEcx
    /\ outcome = NoOutcome

NextMerge == Merge

SpecMerge == InitMerge /\ [][NextMerge]_vars

----------------------------------------------------------------------------
\* Properties of merge

AmbiguousNoConstraints == [certainty |-> AMBIGUOUS, constraints |-> {}]

IsReservation(c) ==
    c.source.kind = "Impl" /\ impl_polarity(c.source.id) = "Reservation"

SameResponses(cands) ==
    \A a \in 1..Len(cands) : \A b \in 1..Len(cands) :
        cands[a].result = cands[b].result

Last(v) == v[Len(v)]

\* v with its i-th element repeated right after it
DuplicateAt(v, i) == SubSeq(v, 1, i) \o SubSeq(v, i, Len(v))

\* C1: whenever merge selects a candidate (the sole candidate, or the one
\* popped when all remaining responses are identical) and that candidate comes
\* from a reservation impl, the response returned is Ambiguous with no
\* constraints, whatever the candidate's own response was.  The exit taken when
\* responses differ selects no candidate.
C1_ReservedWinnerIsAmbiguous ==
    pc = "merged" =>
        /\ outcome.exit \in {"sole", "same"} =>
              /\ outcome.popped = Last(outcome.remaining)
              /\ IsReservation(Last(outcome.remaining)) =>
                    outcome.result = Ok(AmbiguousNoConstraints)
        /\ outcome.exit \in {"empty", "differ"} => outcome.popped = NoCandidate

C1_Witness ==
    /\ pc = "merged"
    /\ outcome.exit = "same"
    /\ IsReservation(outcome.popped)
    /\ outcome.popped.result = [certainty |-> "Yes", constraints |-> {"c1"}]
    /\ outcome.result = Ok(AmbiguousNoConstraints)

\* C2 as stated: if all remaining candidates carry the same response, merge
\* returns exactly that response, whatever their origins and order
C2_Original ==
    (pc = "merged" /\ Len(outcome.remaining) >= 1
        /\ SameResponses(outcome.remaining))
    => outcome.result = Ok(outcome.remaining[1].result)

\* C2 as amended: if all remaining candidates carry the same response, merge
\* returns that response unless the last remaining candidate comes from a
\* reservation impl, and then Ambiguous with no constraints; the result does
\* not depend on the number of candidates, and repeating any candidate in
\* place leaves it unchanged
C2_SameResponseAfterDowngrade ==
    (pc = "merged" /\ Len(outcome.remaining) >= 1
        /\ SameResponses(outcome.remaining))
    => /\ outcome.result =
            Ok(IF IsReservation(Last(outcome.remaining))
               THEN AmbiguousNoConstraints
               ELSE outcome.remaining[1].result)
       /\ \A i \in 1..Len(candidates) :
            merge_candidates_and_discard_reservation_impls(
                DuplicateAt(candidates, i)).result = outcome.result

C2_Witness ==
    /\ pc = "merged"
    /\ Len(outcome.remaining) = 3
    /\ SameResponses(outcome.remaining)
    /\ ~IsReservation(Last(outcome.remaining))
    /\ IsReservation(outcome.remaining[1])
    /\ outcome.result = Ok([certainty |-> "Yes", constraints |-> {"c1"}])

\* C3: with two or more candidates remaining whose responses are not all the
\* same, merge returns a response without constraints whose certainty is
\* Overflow if every remaining candidate's certainty is Overflow and
\* Ambiguous otherwise; never Yes
C3_DifferingResponses ==
    (pc = "merged" /\ Len(outcome.remaining) >= 2
        /\ ~SameResponses(outcome.remaining))
    => /\ outcome.result.ok
       /\ outcome.result.response.constraints = {}
       /\ outcome.result.response.certainty =
            IF \A i \in 1..Len(outcome.remaining) :
                  outcome.remaining[i].result.certainty = "MaybeOverflow"
            THEN "MaybeOverflow" ELSE "MaybeAmbiguity"
       /\ outcome.result.response.certainty # "Yes"

C3_Witness ==
    /\ pc = "merged"
    /\ Len(outcome.remaining) >= 2
    /\ ~SameResponses(outcome.remaining)
    /\ outcome.result.response.certainty = "MaybeOverflow"

\* C5: merge fails with NoSolution exactly when the list is empty; every
\* non-empty list yields a response whose certainty is Yes, Ambiguous or
\* Overflow
C5_NoSolutionIffEmpty ==
    pc = "merged" =>
        /\ Len(candidates) = 0 => outcome.result = ErrNoSolution
        /\ Len(candidates) > 0 =>
              /\ outcome.result.ok
              /\ outcome.result.response \in Responses

C5_Witness ==
    /\ pc = "merged"
    /\ candidates = <<>>
    /\ outcome.result = ErrNoSolution

\* C6: for a single-candidate list merge returns that candidate's response
\* unchanged when it does not come from a reservation impl (and the
\* downgraded response when it does), without entering the pruning loop or
\* the comparison of responses
C6_SoleCandidate ==
    (pc = "merged" /\ Len(candidates) = 1)
    => /\ outcome.exit = "sole"
       /\ ~outcome.looped
       /\ ~outcome.compared
       /\ outcome.result =
            Ok(IF IsReservation(candidates[1])
               THEN AmbiguousNoConstraints
               ELSE candidates[1].result)

C6_Witness ==
    /\ pc = "merged"
    /\ Len(candidates) = 1
    /\ candidates[1].source = Impl(1)
    /\ outcome.result = Ok([certainty |-> "Yes", constraints |-> {"c1"}])

----------------------------------------------------------------------------
\* Properties of assembly

Returned == pc \in {"assembled", "merged"}

IsPrefix(u, v) == Len(u) <= Len(v) /\ SubSeq(v, 1, Len(u)) = u

BuiltinOrigin(cands) == SelectSeq(cands, LAMBDA c : c.source = BuiltinImpl)

\* the sources invoked by the outermost call
TopCalls(src) ==
    { i \in 1..Len(calls) : calls[i].depth = 0 /\ calls[i].source = src }

\* C4: for a goal whose self type is an unresolved inference variable,
\* assembly returns exactly one candidate, of built-in origin, Ambiguous with
\* no constraints, and invokes none of the six sources
C4_TyVarShortCircuit ==
    (pc # "start" /\ kind(goal.self_ty) = "TyVar")
    => /\ Returned
       /\ candidates = <<Candidate(BuiltinImpl, AmbiguousNoConstraints)>>
       /\ calls = <<>>

C4_Witness ==
    /\ pc = "assembled"
    /\ kind(goal.self_ty) = "TyVar"
    /\ width = 2
    /\ \A k \in OracleKeys : oracle[k]
    /\ Len(candidates) = 1

\* C7: for a goal whose self type is a projection that normalizes to T, the
\* list assembly returns starts with the whole list assembly returns for the
\* same goal with self type T, in the same order; the other sources only add
\* candidates after it
C7_NormalizedCandidatesKept ==
    (Returned /\ normalizes(goal.self_ty))
    => LET inner == assemble_and_evaluate_candidates(
                      with_self_ty(goal, normalized_ty(goal.self_ty)),
                      0, <<>>, NewEcx)
       IN  /\ ~inner.fatal
           /\ IsPrefix(inner.cands, candidates)
           /\ \A i \in 1..Len(inner.cands) :
                \E j \in 1..Len(candidates) : candidates[j] = inner.cands[i]

C7_Witness ==
    /\ pc = "assembled"
    /\ normalizes(goal.self_ty)
    /\ Len(goal.self_ty) = 2
    /\ goal.self_ty[2] = "Adt"
    /\ \E n \in 2..Len(candidates) :
         /\ n < Len(candidates)
         /\ SubSeq(candidates, 1, n) =
              assemble_and_evaluate_candidates(
                  with_self_ty(goal, normalized_ty(goal.self_ty)),
                  0, <<>>, NewEcx).cands

\* the check the dispatch has to select: the auto-trait check for an auto
\* trait, else the trait-alias check for a trait alias, else the check of
\* the trait's built-in role, else none
ExpectedCheck(tr) ==
    CASE tr.auto -> "consider_auto_trait_candidate"
      [] ~tr.auto /\ tr.alias -> "consider_trait_alias_candidate"
      [] ~tr.auto /\ ~tr.alias /\ tr.item = "sized" ->
            "consider_builtin_sized_candidate"
      [] ~tr.auto /\ ~tr.alias /\ tr.item \in {"copy", "clone"} ->
            "consider_builtin_copy_clone_candidate"
      [] ~tr.auto /\ ~tr.alias /\ tr.item = "pointer_like" ->
            "consider_builtin_pointer_like_candidate"
      [] ~tr.auto /\ ~tr.alias /\ tr.item \in {"fn", "fn_mut", "fn_once"} ->
            "consider_builtin_fn_trait_candidates"
      [] ~tr.auto /\ ~tr.alias /\ tr.item = "tuple" ->
            "consider_builtin_tuple_candidate"
      [] ~tr.auto /\ ~tr.alias /\ tr.item = "pointee" ->
            "consider_builtin_pointee_candidate"
      [] ~tr.auto /\ ~tr.alias /\ tr.item = "future" ->
            "consider_builtin_future_candidate"
      [] ~tr.auto /\ ~tr.alias /\ tr.item = "gen" ->
            "consider_builtin_generator_candidate"
      [] ~tr.auto /\ ~tr.alias /\ tr.item = "unsize" ->
            "consider_builtin_unsize_candidate"
      [] ~tr.auto /\ ~tr.alias /\ tr.item = "discriminant_kind" ->
            "consider_builtin_discriminant_kind_candidate"
      [] ~tr.auto /\ ~tr.alias /\ tr.item = "none" -> "none"

\* the super-relation paths through which an object self type converts to
\* the target of an unsizing goal
UpcastPaths == consider_builtin_dyn_upcast_candidates(goal)

UnsizeObjectGoal ==
    Returned /\ goal.trait.item = "unsize" /\ kind(goal.self_ty) = "Dynamic"

\* C8 as stated: for a goal of the unsizing trait (the lang item, neither
\* auto nor alias) on an object self type that converts to the target through
\* k >= 1 super-relation paths, the returned list holds exactly k candidates
\* of built-in origin
C8_Original ==
    (UnsizeObjectGoal /\ goal.trait = Unsize /\ Len(UpcastPaths) >= 1)
    => Len(BuiltinOrigin(candidates)) = Len(UpcastPaths)

\* C8 as amended: the built-in dispatch contributes one candidate of built-in
\* origin per path, in path order, after the one of its selected check (if
\* that check succeeds); the only other candidates of built-in origin in the
\* returned list are those of the object-bound scan, one per expanded bound
\* of the self type that matches the goal; so the list holds exactly k of
\* them when the selected check fails and no such bound matches
C8_OnePerPathPlusObjectBounds ==
    UnsizeObjectGoal =>
        LET b == BuiltinOrigin(candidates)
            k == Len(UpcastPaths)
            c == IF consider_builtin(ExpectedCheck(goal.trait), goal).ok
                 THEN 1 ELSE 0
        IN  /\ goal.trait = Unsize => c = 0
            /\ \A i \in TopCalls("builtin") : calls[i].added = c + k
            /\ \A i \in TopCalls("object_bound") :
                 Len(b) = c + k + calls[i].added
            /\ Len(b) >= c + k
            /\ UpcastPaths = [i \in 1..k |-> b[c + i].result]
            /\ (c = 0 /\ \A i \in TopCalls("object_bound") : calls[i].added = 0)
                 => Len(b) = k

C8_Witness ==
    /\ pc = "assembled"
    /\ goal.trait = Unsize
    /\ goal.self_ty = <<"Dynamic">>
    /\ Len(UpcastPaths) = 2
    /\ Len(BuiltinOrigin(candidates)) = 2
    /\ TopCalls("object_bound") # {}

\* C9: the alias-bound scan adds no candidate and does not abort on a self
\* type that is a structural shape or an object type, and the object-bound
\* scan adds none and does not abort on a structural shape or an alias
C9_ScansAddNothing ==
    /\ \A i \in 1..Len(calls) :
         /\ (calls[i].source = "alias_bound"
               /\ calls[i].kind \notin AliasKinds \cup UnexpectedKinds)
            => (calls[i].added = 0 /\ calls[i].check # "bug")
         /\ (calls[i].source = "object_bound"
               /\ calls[i].kind \notin {"Dynamic"} \cup UnexpectedKinds)
            => (calls[i].added = 0 /\ calls[i].check # "bug")
    /\ (pc # "start" /\ kind(goal.self_ty) \notin UnexpectedKinds
          /\ kind(goal.self_ty) # "Projection")
       => /\ Returned
          /\ TopCalls("alias_bound") # {}
          /\ TopCalls("object_bound") # {}
          /\ kind(goal.self_ty) \notin AliasKinds \cup {"Dynamic"} =>
                \A i \in 1..Len(candidates) :
                    candidates[i].source # AliasBound

C9_Witness ==
    /\ pc = "assembled"
    /\ goal.self_ty = <<"Dynamic">>
    /\ width = 2
    /\ \E i \in TopCalls("alias_bound") : calls[i].added = 0
    /\ \E i \in TopCalls("object_bound") : calls[i].added = 2

\* C10: the built-in dispatch invokes the one check selected by the trait in
\* the priority auto trait, trait alias, built-in role; a trait matching none
\* has no check and gets no candidate; every candidate the step adds is of
\* built-in origin, and for a trait other than the unsizing one there is at
\* most one
C10_BuiltinDispatch ==
    /\ \A i \in 1..Len(calls) :
         calls[i].source = "builtin" =>
            /\ calls[i].check = ExpectedCheck(goal.trait)
            /\ calls[i].check = "none" /\ goal.trait.item # "unsize"
                  => calls[i].added = 0
            /\ goal.trait.item # "unsize" => calls[i].added <= 1
    /\ LET r == assemble_builtin_impl_candidates(
                    goal, 0, AsmState(<<>>, <<>>, NewEcx, FALSE))
       IN  /\ \A i \in 1..Len(r.cands) : r.cands[i].source = BuiltinImpl
           /\ Len(r.cands) = r.calls[1].added

C10_Witness ==
    /\ pc = "assembled"
    /\ goal.trait = [auto |-> TRUE, alias |-> TRUE, item |-> "sized"]
    /\ \E i \in TopCalls("builtin") :
         /\ calls[i].check = "consider_auto_trait_candidate"
         /\ calls[i].added = 1

----------------------------------------------------------------------------
\* Order and completeness of the assembled list

\* what one source pushes onto an empty list
EmptyState == AsmState(<<>>, <<>>, NewEcx, FALSE)

\* the assumptions of the environment that apply, each with the index
\* enumerate() gives it, in increasing index
AppliedAssumptions(g) ==
    LET n == Len(g.param_env)
        f[k \in 0..n] ==
            IF k = 0 THEN <<>>
            ELSE LET r == Consider(SrcParamEnv, k, g)
                 IN  IF r.ok
                     THEN Append(f[k - 1], Candidate(ParamEnv(k - 1), r.response))
                     ELSE f[k - 1]
    IN  f[n]

\* the candidates every invocation of a source reports to have pushed
TotalAdded ==
    LET f[k \in 0..Len(calls)] ==
            IF k = 0 THEN 0 ELSE f[k - 1] + calls[k].added
    IN  f[Len(calls)]

\* the one candidate of the short-circuit, when the recursion of the pre-pass
\* ends in an unresolved inference variable
ShortCircuited == IF is_ty_var(<<Last(goal.self_ty)>>) THEN 1 ELSE 0

SixSources ==
    <<"normalizing_self_ty", "impl", "builtin", "param_env", "alias_bound",
      "object_bound">>

\* C11: for a goal whose self type is not an unresolved inference variable,
\* the list assembly returns is the concatenation of what the normalization
\* pre-pass, the impl lookup, the built-in dispatch, the environment scan,
\* the alias-bound scan and the object-bound scan produce, in this order;
\* the environment candidates are the applying assumptions in increasing
\* index, each tagged ParamEnv(i) with its own index; and the list has as
\* many entries as the sources and the short-circuit of the recursion pushed
C11_ConcatenationInSourceOrder ==
    (Returned /\ ~is_ty_var(goal.self_ty))
    => LET pre == IF normalizes(goal.self_ty)
                  THEN assemble_and_evaluate_candidates(
                         with_self_ty(goal, normalized_ty(goal.self_ty)),
                         1, <<>>, NewEcx).cands
                  ELSE <<>>
           impls == assemble_impl_candidates(goal, 0, EmptyState).cands
           builtin == assemble_builtin_impl_candidates(goal, 0, EmptyState).cands
           env == AppliedAssumptions(goal)
           alias == assemble_alias_bound_candidates(goal, 0, EmptyState).cands
           object == assemble_object_bound_candidates(goal, 0, EmptyState).cands
           top == SelectSeq(calls, LAMBDA c : c.depth = 0)
       IN  /\ candidates = pre \o impls \o builtin \o env \o alias \o object
           /\ [i \in 1..Len(top) |-> top[i].source] = SixSources
           /\ Len(candidates) = TotalAdded + ShortCircuited
           /\ \A i, j \in 1..Len(env) : i < j => env[i].source.id < env[j].source.id
           /\ \A i \in 1..Len(env) :
                Consider(SrcParamEnv, env[i].source.id + 1, goal)
                  = Ok(env[i].result)

\* a projection goal for which the pre-pass, the impl lookup, the built-in
\* dispatch, the environment scan and the alias-bound scan all contribute,
\* both assumptions apply, and one candidate occurs twice in the result
C11_Witness ==
    /\ pc = "assembled"
    /\ normalizes(goal.self_ty)
    /\ Len(goal.param_env) = 2
    /\ Len(AppliedAssumptions(goal)) = 2
    /\ \E i \in TopCalls("builtin") : calls[i].added > 0
    /\ \E i \in TopCalls("impl") : calls[i].added > 0
    /\ \E i \in TopCalls("alias_bound") : calls[i].added > 0
    /\ \E i, j \in 1..Len(candidates) :
         /\ i < j
         /\ candidates[i] = candidates[j]
         /\ candidates[j].source = Impl(1)
    /\ \E i, j \in 1..Len(candidates) :
         /\ j = i + 1
         /\ candidates[i].source = ParamEnv(0)
         /\ candidates[j].source = ParamEnv(1)

----------------------------------------------------------------------------
\* The probe around the pre-pass

\* C12: the pre-pass leaves the evaluation context as it found it, whether
\* the normalization succeeds or fails and at every depth of the recursion:
\* each source of one assembly call sees the context the pre-pass of that
\* call saw on entry, the caller gets back the context it passed in, and the
\* pre-pass only appends to the candidate list
C12_PrePassRolledBack ==
    /\ \A i, j \in 1..Len(calls) :
         calls[i].depth = calls[j].depth => calls[i].ecx = calls[j].ecx
    /\ Returned => ecx = NewEcx
    /\ (pc # "start" /\ kind(goal.self_ty) = "Projection")
       => \A e \in {NewEcx, add_goal(next_ty_infer(NewEcx))} :
            LET before == AsmState(Pushed(width, SrcImpl, goal), <<>>, e, FALSE)
                after == assemble_candidates_after_normalizing_self_ty(
                           goal, 0, before)
            IN  ~after.fatal
                => /\ after.ecx = before.ecx
                   /\ IsPrefix(before.cands, after.cands)

\* a projection of a projection: the innermost assembly call ran with two
\* fresh variables created and bound and pushed candidates, and the sources
\* after the outermost pre-pass saw the initial context again
C12_Witness ==
    /\ pc = "assembled"
    /\ Len(goal.self_ty) = 3
    /\ ecx = NewEcx
    /\ \E i \in 1..Len(calls) :
         /\ calls[i].depth = 2
         /\ calls[i].ecx = [vars |-> 2, bound |-> 2, goals |-> 0]
         /\ calls[i].added > 0
    /\ \E i \in 1..Len(calls) :
         /\ calls[i].depth = 1
         /\ calls[i].source = "impl"
         /\ calls[i].ecx = [vars |-> 1, bound |-> 1, goals |-> 0]
    /\ \E i \in TopCalls("object_bound") : calls[i].ecx = NewEcx

----------------------------------------------------------------------------
\* The bug!() arms

\* a bound variable or one of the fresh inference markers
BoundOrFresh == UnexpectedKinds \ {"TyVar"}

\* C13: the alias-bound scan and the object-bound scan each abort on a self
\* type that is a bound variable or a fresh inference marker; a goal that
\* brings such a self type to them, directly or through the pre-pass, ends
\* in the fatal state, which is neither a returned list nor a merge outcome;
\* and a goal whose self type is or normalizes to an unresolved inference
\* variable returns without any source having dispatched on that variable
C13_FatalOnBoundOrFresh ==
    /\ \A k \in BoundOrFresh :
         LET g == with_self_ty(goal, <<k>>)
             a == assemble_alias_bound_candidates(g, 0, EmptyState)
             o == assemble_object_bound_candidates(g, 0, EmptyState)
         IN  /\ a.fatal /\ a.cands = <<>>
             /\ o.fatal /\ o.cands = <<>>
    /\ (pc # "start" /\ Last(goal.self_ty) \in BoundOrFresh)
       => /\ pc = "fatal"
          /\ ~Returned
          /\ outcome = NoOutcome
          /\ Last(calls).check = "bug"
          /\ Last(calls).source \in {"alias_bound", "object_bound"}
          /\ Last(calls).kind = Last(goal.self_ty)
          /\ Last(calls).depth = Len(goal.self_ty) - 1
    /\ pc = "fatal" => Last(goal.self_ty) \in BoundOrFresh
    /\ (pc # "start" /\ Last(goal.self_ty) = "TyVar")
       => /\ Returned
          /\ \A i \in 1..Len(calls) :
               /\ calls[i].kind # "TyVar"
               /\ calls[i].check # "bug"
               /\ calls[i].depth < Len(goal.self_ty) - 1

\* a projection that normalizes to a bound variable: the recursive call at
\* depth 1 ran its impl lookup and then aborted in the alias-bound scan
C13_Witness ==
    /\ pc = "fatal"
    /\ goal.self_ty = <<"Projection", "Bound">>
    /\ \E i \in 1..Len(calls) :
         /\ calls[i].depth = 1
         /\ calls[i].source = "impl"
         /\ calls[i].added > 0
    /\ Last(calls).source = "alias_bound"
    /\ Last(calls).check = "bug"
    /\ Last(calls).depth = 1

====
